---- MODULE Spec2Model ----
(***************************************************************************)
(* The AI-assisted editor component of akbari-editor: the streaming        *)
(* summarize / improve / complete handlers that project a growing text     *)
(* onto the document, and the chat panel's sendMessage.                    *)
(*                                                                         *)
(* The document is a flat sequence of one-character tokens; the token "|"  *)
(* stands for a block boundary (a position that carries no text).          *)
(* Offsets run from 0 to Len(doc); token i occupies [i-1, i).              *)
(***************************************************************************)
EXTENDS Integers, Sequences, FiniteSets, TLC

\* ------------------------------------------------------------------ bounds
MaxInputs == 2      \* inputs of the user: document edits, action clicks, chat input, accepted chat sends
MaxChunks == 2      \* chunks with text that the completion endpoint delivers, in total

\* --------------------------------------------------------------- constants
Boundary == "|"
NoError == "null"
NoRange == <<>>
NoTextSelected == "No text selected."
NotInitialized == "Editor is not initialized."
ReplaceError == "Error replacing selection"
UnknownError == "An unknown error occurred"
TransportError == "Connection error."

\* the editor's initial content, shortened to two characters
InitialContent == <<"x", "y">>

\* the three quick actions
ActionLabels == {"Summarize", "Improve", "Complete"}

\* what a chunk's delta can carry: nothing, or a piece of text of one or two
\* characters. No handler looks into the text of a fragment, so the characters
\* are taken in order from this alphabet, by their place in the stream
FragmentLengths == {0, 1, 2}
Alphabet == <<"A", "B", "C", "D", "E", "F", "G", "H">>

\* what a failing request or stream throws: an Error with a message, or any
\* other value
Thrown == {"Error", "other"}

\* what the user can type into the document: a character or Enter
Typed == {"u", Boundary}

\* the chat panel's quick prompts and what the user can type in its input
quickPrompts == {<<"m">>}
InputTexts == {<<>>, <<" ">>, <<"w">>}

VARIABLES
  editorMounted,   \* editor.value is set
  doc,             \* the document's content
  state,           \* StreamingState: isStreaming, error, insertedLength
  editorState,     \* EditorState: selectionRange
  handler,         \* the running quick-action handler: pc, enhancedText
  chatMessages,    \* the chat transcript
  newMessage,      \* the chat input's text
  isChatLoading,
  chats,           \* the sendMessage calls in flight, oldest first
  outstanding,     \* completion requests issued and not yet exhausted or failed, by who issued them
  inputs,          \* inputs the user has made so far
  chunks,          \* chunks with text delivered so far
  trace,           \* the running operation's history
  ev               \* the last event handled

vars == <<editorMounted, doc, state, editorState, handler, chatMessages, newMessage,
          isChatLoading, chats, outstanding, inputs, chunks, trace, ev>>

\* ----------------------------------------------------------------- helpers
RECURSIVE DropBoundaries(_)
DropBoundaries(s) ==
  IF s = <<>> THEN <<>>
  ELSE IF Head(s) = Boundary THEN DropBoundaries(Tail(s))
       ELSE <<Head(s)>> \o DropBoundaries(Tail(s))

\* whether the offsets from <= to both lie inside the document
InRange(d, from, to) == 0 <= from /\ from <= to /\ to <= Len(d)

\* doc.textBetween(from, to): the text of the range, block boundaries contribute
\* nothing; a range that reaches outside the document has no text to give
textBetween(d, from, to) ==
  IF InRange(d, from, to) THEN DropBoundaries(SubSeq(d, from + 1, to)) ELSE <<>>

\* text.trim(): leading and trailing blanks removed
RECURSIVE trimStart(_)
trimStart(t) == IF t /= <<>> /\ Head(t) = " " THEN trimStart(Tail(t)) ELSE t

RECURSIVE trimEnd(_)
trimEnd(t) ==
  IF t /= <<>> /\ t[Len(t)] = " " THEN trimEnd(SubSeq(t, 1, Len(t) - 1)) ELSE t

trim(t) == trimEnd(trimStart(t))

\* the document after replaceWith(from, to, text)
replaceWith(d, from, to, text) ==
  SubSeq(d, 1, from) \o text \o SubSeq(d, to + 1, Len(d))

\* the selections the user makes in the widget, from <= to inside the document: a
\* caret at either end, the first character, the last one, or everything
Selections ==
  {sel \in {<<0, 0>>, <<Len(doc), Len(doc)>>, <<0, 1>>, <<Len(doc) - 1, Len(doc)>>,
            <<0, Len(doc)>>} : InRange(doc, sel[1], sel[2])}

\* where the user types: at the start or at the end of the document
TypePositions == {0, Len(doc)}

\* what the user deletes: the first character, the last one, or everything
DeleteSelections == {<<0, 1>>, <<Len(doc) - 1, Len(doc)>>, <<0, Len(doc)>>}

\* ------------------------------------------------------------------- state
IdleHandler == [pc |-> "idle", enhancedText |-> <<>>]

\* the fragment of n characters that follows the received text
Fragment(received, n) ==
  [i \in 1..n |-> Alphabet[((Len(received) + i - 1) % Len(Alphabet)) + 1]]

\* the history of the running operation: the document at the trigger, the
\* concatenation of the fragments received; an operation the user edits into
\* keeps only that fact
NoTrace == [docAt |-> <<>>, received |-> <<>>, edited |-> FALSE]

\* the last event: its kind (a trigger, a chunk, the end or the failure of an
\* action's stream, a chat send, or anything else), the fragment a chunk carried
\* or the text the widget had selected at a send, whether it went through (a
\* trigger or a send: the request was issued; a chunk: the document was
\* replaced), for a trigger or a send the selection of the widget (collapsed, a
\* range without text, or a range with text), and the messages of the request it
\* issued
NoRequest == <<>>

Event(op, text, ok, selected) ==
  [op |-> op, text |-> text, ok |-> ok, selected |-> selected, request |-> NoRequest]

Other == Event("other", <<>>, TRUE, "none")

Issued(op, selected, request) ==
  [op |-> op, text |-> <<>>, ok |-> TRUE, selected |-> selected, request |-> request]

\* what the widget has selected: nothing (a caret), a range without text, or text
SelectionKind(sel) ==
  IF sel[1] = sel[2] THEN "collapsed"
  ELSE IF textBetween(doc, sel[1], sel[2]) = <<>> THEN "blank"
  ELSE "text"

Init ==
  /\ editorMounted = FALSE
  /\ doc = <<>>
  /\ state = [isStreaming |-> FALSE, error |-> NoError, insertedLength |-> 0]
  /\ editorState = [selectionRange |-> NoRange]
  /\ handler = IdleHandler
  /\ chatMessages = <<>>
  /\ newMessage = <<>>
  /\ isChatLoading = FALSE
  /\ chats = <<>>
  /\ outstanding = [action |-> 0, chat |-> 0]
  /\ inputs = 0
  /\ chunks = 0
  /\ trace = NoTrace
  /\ ev = Other

chatVars == <<chatMessages, newMessage, isChatLoading, chats>>
streamVars == <<state, editorState, handler, trace>>

\* onMounted: the editor is created with its initial content
onMounted ==
  /\ ~editorMounted
  /\ editorMounted' = TRUE
  /\ doc' = InitialContent
  /\ ev' = Other
  /\ UNCHANGED <<streamVars, chatVars, outstanding, inputs, chunks>>

\* ------------------------------------------------------------ the user's edits
\* the user acts on the mounted component: onMounted runs before the first event
\* of the page can be handled
\* an edit during a streaming operation is noted in the operation's history
NoteEdit == IF handler.pc = "idle" THEN trace ELSE [NoTrace EXCEPT !.edited = TRUE]

\* the user types a character (or Enter) at the offset pos (EditorContent)
UserType(pos, c) ==
  /\ editorMounted /\ inputs < MaxInputs
  /\ doc' = replaceWith(doc, pos, pos, <<c>>)
  /\ inputs' = inputs + 1
  /\ trace' = NoteEdit
  /\ ev' = Other
  /\ UNCHANGED <<editorMounted, state, editorState, handler, chatVars, outstanding,
                 chunks>>

\* the user deletes the range sel of the document (EditorContent)
UserDelete(sel) ==
  /\ editorMounted /\ inputs < MaxInputs
  /\ InRange(doc, sel[1], sel[2]) /\ sel[1] < sel[2]
  /\ doc' = replaceWith(doc, sel[1], sel[2], <<>>)
  /\ inputs' = inputs + 1
  /\ trace' = NoteEdit
  /\ ev' = Other
  /\ UNCHANGED <<editorMounted, state, editorState, handler, chatVars, outstanding,
                 chunks>>

\* ---------------------------------------------------- the completion client
\* getGroqChatCompletion: one streaming request is opened
getGroqChatCompletion(who) == [outstanding EXCEPT ![who] = @ + 1]

\* a client that opens the request again when its stream is over
Reopened(who) == outstanding

\* the stream of a request is exhausted or has failed
Closed(who) == [outstanding EXCEPT ![who] = @ - 1]

\* ------------------------------------------------- the quick-action handlers
\* a hasSelection that only asks for the editor
hasSelectionAnywhere(sel) == editorMounted

\* hasSelection: the widget's selection is not collapsed
hasSelection(sel) == editorMounted /\ sel[1] /= sel[2]

\* a guard that forgets the streaming flag (the handlers would be reentrant)
TriggerGuardReentrant(sel) == hasSelection(sel)

\* the guard every handler starts with; a handler that fails it returns at once
TriggerGuard(sel) == hasSelection(sel) /\ ~state.isStreaming

\* a getSelectedText that reads block boundaries as text (a block separator)
getSelectedTextSeparated(es) ==
  IF ~editorMounted \/ es.selectionRange = NoRange THEN <<>>
  ELSE SubSeq(doc, es.selectionRange[1] + 1, es.selectionRange[2])

\* getSelectedText: the text of the captured range, read from the document now
getSelectedText(es) ==
  IF ~editorMounted \/ es.selectionRange = NoRange THEN <<>>
  ELSE textBetween(doc, es.selectionRange[1], es.selectionRange[2])

\* messages that say Summarize whatever the action
createMessagesSummarize(label, selectedText) ==
  <<[role |-> "system", content |-> <<"Summarize">>],
    [role |-> "user", content |-> <<"Summarize", ": \"">> \o selectedText \o <<"\"">>]>>

\* the system and user messages of an action: the instruction that goes with the
\* label, and the label's prompt around the selected text
createMessages(label, selectedText) ==
  <<[role |-> "system", content |-> <<label>>],
    [role |-> "user", content |-> <<label, ": \"">> \o selectedText \o <<"\"">>]>>

\* a handler that forgets to raise the streaming flag
StartedUnflagged == [isStreaming |-> FALSE, error |-> NoError, insertedLength |-> 0]

\* the handler's first three assignments
Started == [isStreaming |-> TRUE, error |-> NoError, insertedLength |-> 0]

\* a catch that only logs
CaughtLogged(st, message) == st

\* catch: the message of a thrown Error, or the fallback text
Caught(st, message) == [st EXCEPT !.error = message]

ThrownMessage(t) == IF t = "Error" THEN TransportError ELSE UnknownError

\* a finally that leaves the inserted length behind
FinallyKeepsLength(st) == [st EXCEPT !.isStreaming = FALSE]

\* finally: the streaming flag and the inserted length are reset (the captured
\* range is cleared beside it)
Finally(st) == [st EXCEPT !.isStreaming = FALSE, !.insertedLength = 0]

\* enhancedText += content
AccumulateLatest(enhancedText, content) == content

Accumulate(enhancedText, content) == enhancedText \o content

\* a replaceSelection that never records the length it wrote: every call inserts
\* at the captured start
replaceSelectionInsert(newText) ==
  IF ~editorMounted \/ editorState.selectionRange = NoRange
  THEN [doc |-> doc, state |-> state, ok |-> FALSE]
  ELSE LET currentFrom == editorState.selectionRange[1]
       IN IF InRange(doc, currentFrom, currentFrom)
          THEN [doc |-> replaceWith(doc, currentFrom, currentFrom, newText),
                state |-> state, ok |-> TRUE]
          ELSE [doc |-> doc, state |-> [state EXCEPT !.error = ReplaceError],
                ok |-> FALSE]

\* a replaceSelection that forgets the length it wrote when a replacement fails
replaceSelectionResets(newText) ==
  IF ~editorMounted \/ editorState.selectionRange = NoRange
  THEN [doc |-> doc, state |-> state, ok |-> FALSE]
  ELSE LET currentFrom == editorState.selectionRange[1]
           currentTo == editorState.selectionRange[1] + state.insertedLength
       IN IF InRange(doc, currentFrom, currentTo)
          THEN [doc |-> replaceWith(doc, currentFrom, currentTo, newText),
                state |-> [state EXCEPT !.insertedLength = Len(newText)],
                ok |-> TRUE]
          ELSE [doc |-> doc,
                state |-> [state EXCEPT !.error = ReplaceError, !.insertedLength = 0],
                ok |-> FALSE]

\* a replaceSelection that fits its window to the document as it is now
replaceSelectionClamped(newText) ==
  IF ~editorMounted \/ editorState.selectionRange = NoRange
  THEN [doc |-> doc, state |-> state, ok |-> FALSE]
  ELSE LET currentFrom == IF editorState.selectionRange[1] > Len(doc) THEN Len(doc)
                          ELSE editorState.selectionRange[1]
           currentTo == IF currentFrom + state.insertedLength > Len(doc) THEN Len(doc)
                        ELSE currentFrom + state.insertedLength
       IN [doc |-> replaceWith(doc, currentFrom, currentTo, newText),
           state |-> [state EXCEPT !.insertedLength = Len(newText)],
           ok |-> TRUE]

\* a replaceSelection whose catch only logs
replaceSelectionSilent(newText) ==
  IF ~editorMounted \/ editorState.selectionRange = NoRange
  THEN [doc |-> doc, state |-> state, ok |-> FALSE]
  ELSE LET currentFrom == editorState.selectionRange[1]
           currentTo == editorState.selectionRange[1] + state.insertedLength
       IN IF InRange(doc, currentFrom, currentTo)
          THEN [doc |-> replaceWith(doc, currentFrom, currentTo, newText),
                state |-> [state EXCEPT !.insertedLength = Len(newText)],
                ok |-> TRUE]
          ELSE [doc |-> doc, state |-> state, ok |-> FALSE]

\* replaceSelection(newText): the window [captured.from, captured.from +
\* insertedLength) is replaced by newText; a transaction that cannot be built is
\* caught and recorded. Gives the document and the state it leaves.
replaceSelection(newText) ==
  IF ~editorMounted \/ editorState.selectionRange = NoRange
  THEN [doc |-> doc, state |-> state, ok |-> FALSE]
  ELSE LET currentFrom == editorState.selectionRange[1]
           currentTo == editorState.selectionRange[1] + state.insertedLength
       IN IF InRange(doc, currentFrom, currentTo)
          THEN [doc |-> replaceWith(doc, currentFrom, currentTo, newText),
                state |-> [state EXCEPT !.insertedLength = Len(newText)],
                ok |-> TRUE]
          ELSE [doc |-> doc, state |-> [state EXCEPT !.error = ReplaceError],
                ok |-> FALSE]

\* a click on Summarize, Improve or Complete while the widget's selection is sel:
\* the handler runs up to its first await (the completion request), or to its end
\* when it returns or throws before
Trigger(label, sel) ==
  LET captured == [selectionRange |-> sel]
      selectedText == getSelectedText(captured)
      selected == SelectionKind(sel)
  IN /\ editorMounted /\ inputs < MaxInputs
     /\ inputs' = inputs + 1
     /\ IF ~TriggerGuard(sel)
        THEN /\ ev' = Event("trigger", <<>>, FALSE, selected)
             /\ UNCHANGED <<streamVars, outstanding>>
        ELSE IF ~editorMounted
        THEN /\ state' = Finally(Caught(Started, NotInitialized))
             /\ editorState' = [selectionRange |-> NoRange]
             /\ ev' = Event("trigger", <<>>, FALSE, selected)
             /\ UNCHANGED <<handler, trace, outstanding>>
        ELSE IF selectedText = <<>>
        THEN /\ state' = Finally(Caught(Started, NoTextSelected))
             /\ editorState' = [selectionRange |-> NoRange]
             /\ ev' = Event("trigger", <<>>, FALSE, selected)
             /\ UNCHANGED <<handler, trace, outstanding>>
        ELSE /\ state' = Started
             /\ editorState' = captured
             /\ handler' = [pc |-> "streaming", enhancedText |-> <<>>]
             /\ outstanding' = getGroqChatCompletion("action")
             /\ trace' = [NoTrace EXCEPT !.docAt = doc]
             /\ ev' = Issued("trigger", selected, createMessages(label, selectedText))
     /\ UNCHANGED <<editorMounted, doc, chatVars, chunks>>

\* the stream yields a chunk whose delta carries n characters
StreamChunk(n) ==
  /\ handler.pc = "streaming"
  /\ IF n = 0
     THEN /\ ev' = Event("chunk", <<>>, FALSE, "none")
          /\ UNCHANGED <<doc, state, handler, trace, chunks>>
     ELSE LET f == Fragment(handler.enhancedText, n)
              enhancedText == Accumulate(handler.enhancedText, f)
              r == replaceSelection(enhancedText)
          IN /\ chunks < MaxChunks
             /\ chunks' = chunks + 1
             /\ handler' = [handler EXCEPT !.enhancedText = enhancedText]
             /\ doc' = r.doc
             /\ state' = r.state
             /\ trace' = IF trace.edited THEN trace
                         ELSE [trace EXCEPT !.received = @ \o f]
             /\ ev' = Event("chunk", f, r.ok, "none")
  /\ UNCHANGED <<editorMounted, editorState, chatVars, outstanding, inputs>>

\* a finally that leaves the captured range behind
StreamEndKeepsRange ==
  /\ handler.pc = "streaming"
  /\ state' = Finally(state)
  /\ handler' = IdleHandler
  /\ outstanding' = Closed("action")
  /\ trace' = NoTrace
  /\ ev' = Event("end", <<>>, TRUE, "none")
  /\ UNCHANGED <<editorMounted, doc, editorState, chatVars, inputs, chunks>>

\* the stream is exhausted: the loop ends and finally runs
StreamEnd ==
  /\ handler.pc = "streaming"
  /\ state' = Finally(state)
  /\ editorState' = [selectionRange |-> NoRange]
  /\ handler' = IdleHandler
  /\ outstanding' = Closed("action")
  /\ trace' = NoTrace
  /\ ev' = Event("end", <<>>, TRUE, "none")
  /\ UNCHANGED <<editorMounted, doc, chatVars, inputs, chunks>>

\* the request or the stream's next step throws: catch, then finally
StreamFail(t) ==
  /\ handler.pc = "streaming"
  /\ state' = Finally(Caught(state, ThrownMessage(t)))
  /\ editorState' = [selectionRange |-> NoRange]
  /\ handler' = IdleHandler
  /\ outstanding' = Closed("action")
  /\ trace' = NoTrace
  /\ ev' = Event("fail", <<>>, FALSE, "none")
  /\ UNCHANGED <<editorMounted, doc, chatVars, inputs, chunks>>

\* ---------------------------------------------------------------- the chat
\* editor.getHTML(): the document's paragraphs in markup
RECURSIVE Markup(_)
Markup(d) ==
  IF d = <<>> THEN <<>>
  ELSE IF Head(d) = Boundary THEN <<"</p>", "<p>">> \o Markup(Tail(d))
       ELSE <<Head(d)>> \o Markup(Tail(d))

getHTML == IF editorMounted THEN <<"<p>">> \o Markup(doc) \o <<"</p>">> ELSE <<>>

\* a push that puts the entry in front
pushFront(q, entry) == <<entry>> \o q

\* chatMessages.value.push(entry)
push(q, entry) == Append(q, entry)

Without(q, i) == SubSeq(q, 1, i - 1) \o SubSeq(q, i + 1, Len(q))

\* the messages of a chat request: the system message carries the selected text,
\* when there is one, and the document's markup; the user message is the text
chatRequest(text, selectedText) ==
  LET editorContent == getHTML
      currentSelection == IF selectedText /= <<>> THEN selectedText
                          ELSE getSelectedText(editorState)
  IN <<[role |-> "system",
        content |-> [selected |-> currentSelection, document |-> editorContent]],
       [role |-> "user", content |-> text]>>

\* the event of a send made while the widget's selection is sel
Sent(text, selectedText, sel) ==
  IF trim(text) = <<>> THEN Other
  ELSE [Issued("send", SelectionKind(sel), chatRequest(text, selectedText))
          EXCEPT !.text = textBetween(doc, sel[1], sel[2])]

\* sendMessage(text, selectedText) up to its first await
sendMessage(text, selectedText) ==
  IF trim(text) = <<>>
  THEN UNCHANGED <<chatVars, outstanding, inputs>>
  ELSE /\ inputs < MaxInputs
       /\ inputs' = inputs + 1
       /\ isChatLoading' = TRUE
       /\ chatMessages' = push(chatMessages, [role |-> "user", content |-> text])
       /\ chats' = Append(chats, [user |-> Len(chatMessages) + 1,
                                  response |-> <<>>, received |-> <<>>])
       /\ outstanding' = getGroqChatCompletion("chat")
       /\ UNCHANGED newMessage

\* the user edits the chat input (disabled while isChatLoading)
SetNewMessage(t) ==
  /\ editorMounted /\ ~isChatLoading /\ newMessage /= t /\ inputs < MaxInputs
  /\ newMessage' = t
  /\ inputs' = inputs + 1
  /\ ev' = Other
  /\ UNCHANGED <<editorMounted, doc, streamVars, chatMessages, isChatLoading, chats,
                 outstanding, chunks>>

\* Enter in the chat input, or the Send button (both disabled while isChatLoading)
SendInput(sel) ==
  /\ editorMounted /\ ~isChatLoading
  /\ sendMessage(newMessage, <<>>)
  /\ ev' = Sent(newMessage, <<>>, sel)
  /\ UNCHANGED <<editorMounted, doc, streamVars, chunks>>

\* a quick-prompt button
SendQuickPrompt(prompt, sel) ==
  /\ editorMounted
  /\ sendMessage(prompt, <<>>)
  /\ ev' = Sent(prompt, <<>>, sel)
  /\ UNCHANGED <<editorMounted, doc, streamVars, chunks>>

\* the stream of the i-th send in flight yields a chunk whose delta carries n
\* characters
ChatChunk(i, n) ==
  /\ i \in 1..Len(chats)
  /\ IF n = 0 THEN chunks' = chunks ELSE chunks < MaxChunks /\ chunks' = chunks + 1
  /\ chats' = [chats EXCEPT
                ![i].response = IF n = 0 THEN @
                                ELSE Accumulate(@, Fragment(chats[i].received, n)),
                ![i].received = @ \o Fragment(@, n)]
  /\ ev' = Other
  /\ UNCHANGED <<editorMounted, doc, streamVars, chatMessages, newMessage,
                 isChatLoading, outstanding, inputs>>

\* a finally that also resets the streaming state, as the actions' finally does
ChatEndResetsStreaming(i) ==
  /\ i \in 1..Len(chats)
  /\ chatMessages' = push(chatMessages,
                          [role |-> "assistant", content |-> chats[i].response])
  /\ isChatLoading' = FALSE
  /\ newMessage' = <<>>
  /\ chats' = Without(chats, i)
  /\ outstanding' = Closed("chat")
  /\ state' = Finally(state)
  /\ editorState' = [selectionRange |-> NoRange]
  /\ ev' = Event("chatend", <<>>, TRUE, "none")
  /\ UNCHANGED <<editorMounted, doc, handler, trace, inputs, chunks>>

\* the stream of the i-th send in flight is exhausted
ChatEnd(i) ==
  /\ i \in 1..Len(chats)
  /\ chatMessages' = push(chatMessages,
                          [role |-> "assistant", content |-> chats[i].response])
  /\ isChatLoading' = FALSE
  /\ newMessage' = <<>>
  /\ chats' = Without(chats, i)
  /\ outstanding' = Closed("chat")
  /\ ev' = Event("chatend", <<>>, TRUE, "none")
  /\ UNCHANGED <<editorMounted, doc, streamVars, inputs, chunks>>

\* a catch that keeps what was received: the partial response is pushed
ChatFailKeepsPartial(i) ==
  /\ i \in 1..Len(chats)
  /\ chatMessages' = push(chatMessages,
                          [role |-> "assistant", content |-> chats[i].response])
  /\ isChatLoading' = FALSE
  /\ newMessage' = <<>>
  /\ chats' = Without(chats, i)
  /\ outstanding' = Closed("chat")
  /\ ev' = Event("chatfail", <<>>, FALSE, "none")
  /\ UNCHANGED <<editorMounted, doc, streamVars, inputs, chunks>>

\* the request or the stream of the i-th send in flight throws
ChatFail(i) ==
  /\ i \in 1..Len(chats)
  /\ isChatLoading' = FALSE
  /\ newMessage' = <<>>
  /\ chats' = Without(chats, i)
  /\ outstanding' = Closed("chat")
  /\ ev' = Event("chatfail", <<>>, FALSE, "none")
  /\ UNCHANGED <<editorMounted, doc, streamVars, chatMessages, inputs, chunks>>

\* ------------------------------------------------------------ specification
Next ==
  \/ onMounted
  \/ \E pos \in TypePositions : \E c \in Typed : UserType(pos, c)
  \/ \E sel \in DeleteSelections : UserDelete(sel)
  \/ \E label \in ActionLabels : \E sel \in Selections : Trigger(label, sel)
  \/ \E n \in FragmentLengths : StreamChunk(n)
  \/ StreamEnd
  \/ \E t \in Thrown : StreamFail(t)
  \/ \E t \in InputTexts : SetNewMessage(t)
  \/ \E sel \in Selections : SendInput(sel)
  \/ \E prompt \in quickPrompts : \E sel \in Selections : SendQuickPrompt(prompt, sel)
  \/ \E i \in 1..Len(chats) : \E n \in FragmentLengths : ChatChunk(i, n)
  \/ \E i \in 1..Len(chats) : ChatEnd(i)
  \/ \E i \in 1..Len(chats) : ChatFail(i)

Spec == Init /\ [][Next]_vars

\* a stream that was opened is finite: the completion service ends it, or the
\* connection fails
FairSpec == Spec /\ WF_vars(StreamEnd \/ \E t \in Thrown : StreamFail(t))

\* ------------------------------------------------------------------ claims
\* what a step leaves alone when a handler returns at its guard
HandlerUntouched ==
  /\ state' = state
  /\ editorState' = editorState
  /\ handler' = handler
  /\ doc' = doc
  /\ outstanding' = outstanding

\* C1: at most one streaming operation is active at a time, and an action
\* triggered while isStreaming is true does nothing: no request is issued and the
\* streaming state, the captured range and the document stay as they were.
C1_OneOperationAtATime ==
  /\ [](outstanding.action <= 1 /\ (outstanding.action = 1 <=> state.isStreaming))
  /\ [][(ev'.op = "trigger" /\ state.isStreaming)
          => (~ev'.ok /\ ev'.request = NoRequest /\ HandlerUntouched)]_vars

\* a click on a selection with text was turned away while an operation streamed
C1_Witness ==
  /\ ev.op = "trigger" /\ ~ev.ok /\ ev.selected = "text"
  /\ state.isStreaming /\ handler.enhancedText /= <<>>

\* C2: at most one completion request is outstanding at a time, chat sends
\* included. (The code does not keep this: sendMessage has no guard.)
C2_OneRequestOutstanding == outstanding.action + outstanding.chat <= 1

\* an operation is streaming and the user has not edited the document since it
\* started (no replacement fails then: the window stays inside the document)
Undisturbed == handler.pc = "streaming" /\ ~trace.edited

\* the parts of the document the operation started on, around its captured range
BeforeStart == SubSeq(trace.docAt, 1, editorState.selectionRange[1])

FromStart ==
  SubSeq(trace.docAt, editorState.selectionRange[1] + 1, Len(trace.docAt))

AfterEnd ==
  SubSeq(trace.docAt, editorState.selectionRange[2] + 1, Len(trace.docAt))

\* the part of the document that starts at the captured start and is as long as
\* the text t
Written(d, t) ==
  SubSeq(d, editorState.selectionRange[1] + 1, editorState.selectionRange[1] + Len(t))

\* C3: after an undisturbed operation on [start, end) has received f1..fn, the
\* document is the text before start, then f1+...+fn, then the text after end:
\* the selected text is gone. (The code does not do this: the first replacement
\* has an empty window, so the selected text stays behind the accumulated text.)
C3_SelectionReplaced ==
  (Undisturbed /\ trace.received /= <<>>)
    => doc = BeforeStart \o trace.received \o AfterEnd

\* C4: the document an undisturbed operation leaves is a function of the
\* concatenation of the fragments received, whatever their number and sizes, and
\* a chunk with an empty fragment changes nothing.
C4_SplitIndependent ==
  /\ [](Undisturbed => doc = BeforeStart \o trace.received \o FromStart)
  /\ [][(ev'.op = "chunk" /\ ev'.text = <<>>)
          => (HandlerUntouched /\ trace' = trace)]_vars

\* the text AB arrived in two fragments
C4_Witness ==
  /\ Undisturbed /\ ev.op = "chunk" /\ ev.ok
  /\ ev.text = <<"B">> /\ trace.received = <<"A", "B">>

\* C5 as stated: a trigger on any selection whose ends differ, with no operation
\* active, sets isStreaming.
C5_AnyRangeStarts ==
  [][(ev'.op = "trigger" /\ ev'.selected /= "collapsed" /\ editorMounted
        /\ ~state.isStreaming) => state'.isStreaming]_vars

\* C5: a trigger on a selection that holds text, with no operation active, sets
\* isStreaming; isStreaming stays true until the stream is exhausted or fails,
\* and is false after that.
C5_StreamingWhileTextStreams ==
  /\ [][(ev'.op = "trigger" /\ ev'.selected = "text" /\ ~state.isStreaming)
          => (ev'.ok /\ state'.isStreaming)]_vars
  /\ [][(state.isStreaming /\ ev'.op \notin {"end", "fail"})
          => state'.isStreaming]_vars
  /\ [][(ev'.op \in {"end", "fail"}) => (state.isStreaming /\ ~state'.isStreaming)]_vars

\* a stream that delivered two chunks has been exhausted
C5_Witness ==
  ev.op = "end" /\ ~state.isStreaming /\ chunks = MaxChunks /\ Len(doc) > Len(InitialContent) + 1

\* C6: a trigger on a collapsed selection does nothing: no request is issued and
\* the document, isStreaming, error, insertedLength and the captured range keep
\* their values.
C6_CollapsedIsNoOp ==
  [][(ev'.op = "trigger" /\ ev'.selected = "collapsed")
       => (~ev'.ok /\ ev'.request = NoRequest /\ HandlerUntouched)]_vars

\* a click with a caret in a document that has text, no operation active
C6_Witness ==
  /\ ev.op = "trigger" /\ ev.selected = "collapsed"
  /\ editorMounted /\ doc /= <<>> /\ ~state.isStreaming /\ state.error = NoError

\* C7: a replacement that fails while streaming is caught and recorded in error
\* and does not end the stream: the operation stays active, the document and
\* insertedLength keep the values of the last replacement that went through, the
\* fragment is still accumulated, and every chunk with text is an attempt with
\* the whole accumulated text: written at the captured start, or recorded as
\* failed.
C7_ReplaceFailureContinues ==
  /\ [][(ev'.op = "chunk" /\ ev'.text /= <<>> /\ ~ev'.ok)
          => /\ state'.error = ReplaceError
             /\ state'.isStreaming /\ handler'.pc = "streaming"
             /\ state'.insertedLength = state.insertedLength
             /\ editorState' = editorState
             /\ doc' = doc
             /\ outstanding' = outstanding]_vars
  /\ [][(ev'.op = "chunk" /\ ev'.text /= <<>>)
          => /\ handler'.enhancedText = handler.enhancedText \o ev'.text
             /\ \/ ~ev'.ok /\ state'.error = ReplaceError
                \/ /\ ev'.ok
                   /\ Written(doc', handler'.enhancedText) = handler'.enhancedText
                   /\ state'.insertedLength = Len(handler'.enhancedText)]_vars

\* a second fragment was tried with the accumulated text after the replacement of
\* the first had failed
C7_Witness ==
  /\ ev.op = "chunk" /\ ~ev.ok /\ ev.text /= <<>>
  /\ Len(handler.enhancedText) > Len(ev.text)
  /\ state.isStreaming /\ state.error = ReplaceError /\ state.insertedLength = 0

\* C8: when the stream fails after k fragments the document keeps what the k
\* fragments wrote, error records the failure, isStreaming is false, the captured
\* range is null and insertedLength is 0.
C8_StreamFailureKeepsProgress ==
  [][(ev'.op = "fail")
       => /\ doc' = doc
          /\ Undisturbed => Written(doc', trace.received) = trace.received
          /\ state'.error \in {TransportError, UnknownError}
          /\ ~state'.isStreaming
          /\ editorState'.selectionRange = NoRange
          /\ state'.insertedLength = 0]_vars

\* the stream failed after two fragments, which the document still holds
C8_Witness ==
  /\ ev.op = "fail" /\ chunks = MaxChunks /\ state.error = TransportError
  /\ \E i \in 1..Len(doc) - 1 : doc[i] = "A" /\ doc[i + 1] = "B"

\* a handler is Idle
Idle ==
  /\ handler = IdleHandler
  /\ ~state.isStreaming
  /\ editorState.selectionRange = NoRange
  /\ state.insertedLength = 0

\* C9: every way out of a handler (the stream exhausted, no text selected, the
\* stream failed) leaves it Idle, a trigger on a selection with text is then
\* accepted and starts an operation, and an operation that started is Idle again
\* at some time after.
C9_EveryExitIsIdle ==
  /\ [](state.isStreaming \/ Idle)
  /\ [][(ev'.op \in {"end", "fail"} \/ (ev'.op = "trigger" /\ ~ev'.ok /\ ~state.isStreaming))
          => Idle']_vars
  /\ [][(ev'.op = "trigger" /\ ev'.selected = "text" /\ Idle)
          => /\ ev'.ok /\ ev'.request /= NoRequest
             /\ state'.isStreaming /\ handler'.pc = "streaming"
             /\ editorState'.selectionRange /= NoRange
             /\ outstanding'.action = 1]_vars
  /\ (state.isStreaming ~> Idle)

\* an operation was started on text an earlier operation had written
C9_Witness ==
  /\ ev.op = "trigger" /\ ev.ok /\ state.isStreaming /\ chunks > 0
  /\ handler.enhancedText = <<>>
  /\ \E i \in 1..Len(doc) : doc[i] = "A"

\* the text t is somewhere in the document d
Holds(d, t) == \E i \in 0..Len(d) - Len(t) : SubSeq(d, i + 1, i + Len(t)) = t

\* C10 as stated: when the stream of an operation is exhausted, the text of every
\* fragment received is in the document.
C10_NothingDropped ==
  [][(ev'.op = "end") => Holds(doc', handler.enhancedText)]_vars

\* C10: fragments are applied in the order they arrive: every chunk with text
\* extends the accumulated text at its end, the texts written are the prefixes
\* f1, f1+f2, ... in that order, and, unless the user edited the document during
\* the operation, the document holds the text of every fragment received when
\* the stream is exhausted.
C10_AppliedInOrder ==
  /\ [][(ev'.op = "chunk" /\ ev'.text /= <<>>)
          => /\ handler'.enhancedText = handler.enhancedText \o ev'.text
             /\ ev'.ok => Written(doc', handler'.enhancedText) = handler'.enhancedText]_vars
  /\ [](Undisturbed => /\ handler.enhancedText = trace.received
                       /\ Written(doc, trace.received) = trace.received)
  /\ [][(ev'.op = "end" /\ Undisturbed)
          => /\ Written(doc', trace.received) = trace.received
             /\ Holds(doc', handler.enhancedText)]_vars

\* a stream of two fragments was exhausted and the document holds both in order
C10_Witness ==
  /\ ev.op = "end" /\ chunks = MaxChunks /\ inputs = 1 /\ chatMessages = <<>>
  /\ \E i \in 1..Len(doc) - 1 : doc[i] = "A" /\ doc[i + 1] = "B"

\* C11: a chat send grounds its request in one context: the text the widget has
\* selected when there is some, the export of the whole document when there is
\* none. (The code does not do this: it reads the range captured by a running
\* action, not the widget's selection, and always embeds the whole document.)
C11_OneGroundingContext ==
  ev.op = "send"
    => ev.request[1].content =
         IF ev.text /= <<>> THEN [selected |-> ev.text, document |-> <<>>]
         ELSE [selected |-> <<>>, document |-> getHTML]

\* the i-th send in flight leaves the ones in flight
Leaves(i) == i \in 1..Len(chats) /\ chats' = Without(chats, i)

\* C12: the transcript only grows at its end: a step leaves it alone, or an
\* accepted send appends its user entry in the step that issues its request, or
\* the exhausted stream of a send appends one assistant entry with the whole
\* response; no entry is edited, removed or moved.
C12_TranscriptAppendOnly ==
  /\ [][\/ chatMessages' = chatMessages
        \/ /\ ev'.op = "send"
           /\ chatMessages' = Append(chatMessages, ev'.request[2])
           /\ outstanding'.chat = outstanding.chat + 1
        \/ /\ ev'.op = "chatend"
           /\ \E i \in 1..Len(chats) :
                /\ Leaves(i)
                /\ chatMessages' = Append(chatMessages,
                                          [role |-> "assistant",
                                           content |-> chats[i].received])]_vars
  /\ [][(ev'.op = "send") => Len(chatMessages') = Len(chatMessages) + 1]_vars

\* the second of two overlapping sends was answered: two user entries, then an
\* assistant entry
C12_Witness ==
  /\ ev.op = "chatend" /\ Len(chatMessages) = 3 /\ Len(chats) = 1
  /\ chatMessages[2].role = "user" /\ chatMessages[3].content /= <<>>

\* C13: a send whose stream is exhausted appends exactly one assistant entry, the
\* concatenation of the fragments received in their order; a send whose request
\* or stream fails appends nothing and its user entry stays where it was.
C13_AssistantEntry ==
  /\ [][(ev'.op = "chatend")
          => \E i \in 1..Len(chats) :
               /\ Leaves(i)
               /\ chatMessages' = Append(chatMessages,
                                         [role |-> "assistant",
                                          content |-> chats[i].received])]_vars
  /\ [][(ev'.op = "chatfail")
          => /\ chatMessages' = chatMessages
             /\ \E i \in 1..Len(chats) :
                  Leaves(i) /\ chatMessages'[chats[i].user].role = "user"]_vars

\* a response that came in two fragments was appended
C13_Witness ==
  /\ ev.op = "chatend" /\ chatMessages /= <<>>
  /\ chatMessages[Len(chatMessages)] = [role |-> "assistant", content |-> <<"A", "B", "C">>]

\* what a click on an action can leave, whatever the action: the handler returned
\* at its guard, it threw for want of text, or it opened its stream
Returned ==
  [state |-> state, editorState |-> editorState, handler |-> handler,
   outstanding |-> outstanding]

Threw ==
  [state |-> [isStreaming |-> FALSE, error |-> NoTextSelected, insertedLength |-> 0],
   editorState |-> [selectionRange |-> NoRange], handler |-> handler,
   outstanding |-> outstanding]

Opened(sel) ==
  [state |-> [isStreaming |-> TRUE, error |-> NoError, insertedLength |-> 0],
   editorState |-> [selectionRange |-> sel],
   handler |-> [pc |-> "streaming", enhancedText |-> <<>>],
   outstanding |-> [outstanding EXCEPT !.action = @ + 1]]

TriggerOutcomes(sel) == {Returned, Threw, Opened(sel)}

\* the click on label with the selection sel can leave the outcome o
Leaving(label, sel, o) ==
  ENABLED (/\ Trigger(label, sel)
           /\ state' = o.state /\ editorState' = o.editorState
           /\ handler' = o.handler /\ outstanding' = o.outstanding)

\* the click on label with the selection sel can issue the request named after
\* label, around the selected text
Asking(label, sel) ==
  ENABLED (/\ Trigger(label, sel)
           /\ Len(ev'.request) = 2
           /\ ev'.request[1] = [role |-> "system", content |-> <<label>>]
           /\ ev'.request[2].role = "user"
           /\ ev'.request[2].content =
                <<label, ": \"">> \o textBetween(doc, sel[1], sel[2]) \o <<"\"">>)

C15_EmptyTextFails ==
  [][(ev'.op = "trigger" /\ ev'.selected = "blank" /\ ~state.isStreaming)
       => /\ ~ev'.ok /\ ev'.request = NoRequest
          /\ outstanding' = outstanding
          /\ doc' = doc
          /\ state'.error = NoTextSelected
          /\ Idle']_vars

\* a click on a selection that spans only a block boundary has failed
C15_Witness ==
  /\ ev.op = "trigger" /\ ev.selected = "blank" /\ ~ev.ok
  /\ state.error = NoTextSelected /\ Idle /\ \E i \in 1..Len(doc) : doc[i] = Boundary

\* the window of the running operation: what the document holds from the
\* captured start over insertedLength characters
Window ==
  SubSeq(doc, editorState.selectionRange[1] + 1,
         editorState.selectionRange[1] + state.insertedLength)

\* C16: while an operation streams and the user does not edit, the window
\* [start, start + insertedLength) of the document holds the accumulated text and
\* insertedLength is its length; a chunk with text replaces the document once, a
\* chunk without text does not replace it.
C16_WindowHoldsAccumulated ==
  /\ [](Undisturbed => /\ state.insertedLength = Len(handler.enhancedText)
                       /\ Window = handler.enhancedText)
  /\ [][(ev'.op = "chunk" /\ Undisturbed)
          => IF ev'.text /= <<>>
             THEN ev'.ok /\ doc' /= doc /\ Len(doc') = Len(doc) + Len(ev'.text)
             ELSE ~ev'.ok /\ doc' = doc /\ state' = state]_vars

\* the third character of the accumulated text has been written
C16_Witness ==
  /\ Undisturbed /\ ev.op = "chunk" /\ ev.ok
  /\ state.insertedLength = 3 /\ Window = <<"A", "B", "C">>

\* C17: insertedLength is 0 when an operation starts and does not decrease from
\* one state to the next while the operation runs, whatever the fragments, the
\* user's edits and the replacements that fail.
C17_InsertedLengthGrows ==
  /\ [][(ev'.op = "trigger" /\ ev'.ok) => state'.insertedLength = 0]_vars
  /\ [][(state.isStreaming /\ state'.isStreaming)
          => state'.insertedLength >= state.insertedLength]_vars

\* a replacement failed after an earlier one had written text
C17_Witness ==
  /\ ev.op = "chunk" /\ ~ev.ok /\ ev.text /= <<>>
  /\ state.isStreaming /\ state.insertedLength > 0 /\ state.error = ReplaceError

\* C18: the captured range is set at the trigger that starts an operation, keeps
\* its value until the operation ends, when it becomes null, and is null
\* whenever no operation is active; no send, edit or later click changes it.
C18_CapturedRangeFixed ==
  /\ [](state.isStreaming <=> editorState.selectionRange /= NoRange)
  /\ [][(editorState' /= editorState)
          => \/ /\ ev'.op = "trigger" /\ ev'.ok /\ ~state.isStreaming
                /\ editorState'.selectionRange /= NoRange
             \/ /\ ev'.op \in {"end", "fail"}
                /\ editorState'.selectionRange = NoRange]_vars

\* the range captured on the first character is still there after the user has
\* deleted the whole document
C18_Witness ==
  /\ state.isStreaming /\ trace.edited /\ doc = <<>>
  /\ editorState.selectionRange = <<0, 1>>

\* C19: an edit of the user during an operation changes neither the captured
\* range nor insertedLength, and the next replacement uses the window [start,
\* start + insertedLength) of the document as it is then: it fails exactly when
\* that window is outside the document and otherwise replaces exactly that
\* window with the accumulated text.
C19_WindowNotReconciled ==
  /\ [][(state.isStreaming /\ ev'.op = "other" /\ doc' /= doc)
          => (editorState' = editorState /\ state' = state)]_vars
  /\ [][(ev'.op = "chunk" /\ ev'.text /= <<>>)
          => LET start == editorState.selectionRange[1]
                 end == editorState.selectionRange[1] + state.insertedLength
             IN /\ ev'.ok <=> end <= Len(doc)
                /\ ev'.ok => doc' = SubSeq(doc, 1, start) \o handler'.enhancedText
                                      \o SubSeq(doc, end + 1, Len(doc))]_vars

\* the user typed in front of the fragment A, and the next replacement wrote AB
\* over the typed character
C19_Witness ==
  /\ ev.op = "chunk" /\ ev.ok /\ trace.edited
  /\ doc = <<"A", "B", "A", "x", "y">>

\* the requests outstanding
Requests == outstanding.action + outstanding.chat

\* C20: a request is issued only by a click that starts an operation or by an
\* accepted send, one for each, and the end or the failure of a stream closes
\* its request without issuing another one.
C20_NoRetry ==
  /\ [][(Requests' > Requests)
          => /\ ev'.op \in {"trigger", "send"} /\ ev'.ok
             /\ ev'.request /= NoRequest]_vars
  /\ [][(ev'.op \in {"trigger", "send"} /\ ev'.ok) => Requests' = Requests + 1]_vars
  /\ [][(ev'.op \in {"end", "fail"})
          => outstanding' = [outstanding EXCEPT !.action = @ - 1]]_vars
  /\ [][(ev'.op \in {"chatend", "chatfail"})
          => outstanding' = [outstanding EXCEPT !.chat = @ - 1]]_vars

\* a stream failed after a fragment and nothing is outstanding
C20_Witness ==
  /\ ev.op = "fail" /\ Requests = 0 /\ chunks > 0
  /\ \E i \in 1..Len(doc) : doc[i] = "A"

\* C21: a replacement removes only text the running operation wrote: what lies
\* in the window it replaces is the text it had accumulated, never text that was
\* in the document before the trigger or that the user typed. (The code does not
\* keep this: after an edit of the user the window covers other text.)
C21_RemovesOnlyOwnText ==
  [][(ev'.op = "chunk" /\ ev'.ok) => Window = handler.enhancedText]_vars

\* C22: isChatLoading is true exactly while a send is in flight. (The code does
\* not keep this: the finally of one send clears the flag while another send is
\* still in flight.)
C22_LoadingWhileInFlight == isChatLoading <=> chats /= <<>>

\* C23: an assistant entry comes right after the user entry of the send it
\* answers. (The code does not keep this when sends overlap.)
C23_AnswerFollowsQuestion ==
  [][(ev'.op = "chatend")
       => \E i \in 1..Len(chats) : Leaves(i) /\ chats[i].user = Len(chatMessages)]_vars

\* C24: no step of a chat send (the send itself, a chunk, the end or the failure
\* of its stream) changes the document, isStreaming, error, insertedLength or the
\* captured range, whether or not an operation is streaming.
C24_SendLeavesEditorAlone ==
  [][(ev'.op \in {"send", "chatend", "chatfail"} \/ chats' /= chats
        \/ chatMessages' /= chatMessages \/ isChatLoading' /= isChatLoading)
       => /\ doc' = doc
          /\ state' = state
          /\ editorState' = editorState
          /\ handler' = handler]_vars

\* a send made during an operation was answered while the operation still
\* streams
C24_Witness ==
  /\ ev.op = "chatend" /\ state.isStreaming /\ handler.enhancedText /= <<>>
  /\ editorState.selectionRange /= NoRange /\ Len(chatMessages) = 2

====
